---- MODULE Spec2Model ----
(***************************************************************************)
(* Model of OrderManager (src/OrderManager/OrderManager.cpp): the Order    *)
(* entity, the five Listener callbacks and the aggregates they maintain.   *)
(* The program state is orders, replacePendingOrdersMap, nfq, cov and pov. *)
(* nEvents, bidFilled, offerFilled, cycle, credited and trace are history   *)
(* variables: they record the calls made so far and never influence the    *)
(* program.                                                                *)
(***************************************************************************)
EXTENDS Integers, FiniteSets, Sequences, TLC

\* ---- bounds of the model ----
MaxId == 2
MaxPrice == 2
MaxQty == 2
MaxDelta == 1
MaxFill == 2
MaxEvents == 4
MaxEventsLong == 5

\* The ids range over 1..MaxId; prices, quantities, deltas and fills take
\* the smallest value and the bound, deltas of either sign and zero.
Ids == 1..MaxId
Sides == {"B", "O"}
Prices == {1, MaxPrice}
Quantities == {1, MaxQty}
Deltas == {0 - MaxDelta, 0, MaxDelta}
FillQuantities == {1, MaxFill}

\* enum class OrderState
NewPending == "NewPending"
Active == "Active"
Rejected == "Rejected"
ReplacePending == "ReplacePending"
PartiallyFilled == "PartiallyFilled"
Completed == "Completed"

VARIABLES orders, replacePendingOrdersMap, nfq, cov, pov,
          nEvents, bidFilled, offerFilled, cycle, credited, trace

progVars == <<orders, replacePendingOrdersMap, nfq, cov, pov>>
vars == <<orders, replacePendingOrdersMap, nfq, cov, pov,
          nEvents, bidFilled, offerFilled, cycle, credited, trace>>

\* ---- class Order ----

\* Order::Order
NewOrder(id, side, price, quantity) ==
    [id |-> id, side |-> side, price |-> price, totalQuantity |-> quantity,
     remainingQuantity |-> quantity, filledQuantity |-> 0,
     orderState |-> NewPending]

\* replaceOrder with the delta applied to remainingQuantity only
replaceOrder_remainingOnly(o, newId, deltaQuantity) ==
    [o EXCEPT !.id = newId,
              !.remainingQuantity = @ + deltaQuantity]

\* replaceOrder with the delta applied to totalQuantity only
replaceOrder_totalOnly(o, newId, deltaQuantity) ==
    [o EXCEPT !.id = newId,
              !.totalQuantity = @ + deltaQuantity]

\* Order::replaceOrder
replaceOrder(o, newId, deltaQuantity) ==
    [o EXCEPT !.id = newId,
              !.totalQuantity = @ + deltaQuantity,
              !.remainingQuantity = @ + deltaQuantity]

\* ChangeOrderState with no guard: the state is derived from the quantities
\* whatever the current state
ChangeOrderState_always(o, isPendingOrderUpdate) ==
    IF o.filledQuantity = 0
    THEN [o EXCEPT !.orderState = Active]
    ELSE IF o.filledQuantity > 0 /\ o.remainingQuantity > 0
         THEN [o EXCEPT !.orderState = PartiallyFilled]
         ELSE [o EXCEPT !.orderState = Completed]

\* ChangeOrderState with isPendingOrderUpdate ignored: a pending order keeps
\* its state
ChangeOrderState_flagIgnored(o, isPendingOrderUpdate) ==
    IF /\ o.orderState # NewPending
       /\ o.orderState # ReplacePending
       /\ o.orderState # Rejected
    THEN IF o.filledQuantity = 0
         THEN [o EXCEPT !.orderState = Active]
         ELSE IF o.filledQuantity > 0 /\ o.remainingQuantity > 0
              THEN [o EXCEPT !.orderState = PartiallyFilled]
              ELSE [o EXCEPT !.orderState = Completed]
    ELSE o

\* Order::ChangeOrderState
ChangeOrderState(o, isPendingOrderUpdate) ==
    IF isPendingOrderUpdate
       \/ (/\ o.orderState # NewPending
           /\ o.orderState # ReplacePending
           /\ o.orderState # Rejected)
    THEN IF o.filledQuantity = 0
         THEN [o EXCEPT !.orderState = Active]
         ELSE IF o.filledQuantity > 0 /\ o.remainingQuantity > 0
              THEN [o EXCEPT !.orderState = PartiallyFilled]
              ELSE [o EXCEPT !.orderState = Completed]
    ELSE o

\* ---- class OrderManager ----

\* updateNFQ with the side ignored
updateNFQ_unsigned(n, side, quantityFilled) ==
    n + quantityFilled

\* OrderManager::updateNFQ
updateNFQ(n, side, quantityFilled) ==
    IF side = "B" THEN n + quantityFilled ELSE n - quantityFilled

\* OrderManager::updateCOV: cov[side == 'B'] += value
updateCOV(c, side, value) ==
    [c EXCEPT ![side = "B"] = @ + value]

\* OrderManager::getNFQ, getCOV, getPOV
getNFQ == nfq
getCOV(side) == cov[side = "B"]
getPOV(side) == pov[side = "B"]

\* unordered_map::insert used where operator[] is meant: an existing entry
\* is kept
MapPut_keepsExisting(m, k, v) ==
    [x \in (DOMAIN m) \cup {k} |-> IF x \in DOMAIN m THEN m[x] ELSE v]

\* unordered_map::insert / operator[] on a map held as a function
MapPut(m, k, v) == [x \in (DOMAIN m) \cup {k} |-> IF x = k THEN v ELSE m[x]]
\* unordered_map::erase
MapErase(m, k) == [x \in (DOMAIN m) \ {k} |-> m[x]]
EmptyMap == [x \in {} |-> 0]

\* OnInsertOrderRequest with no check for an existing id
OnInsertOrderRequest_overwrites(id, side, price, quantity) ==
    /\ orders' = MapPut(orders, id, NewOrder(id, side, price, quantity))
    /\ UNCHANGED <<replacePendingOrdersMap, nfq, cov, pov>>

\* OrderManager::OnInsertOrderRequest
OnInsertOrderRequest(id, side, price, quantity) ==
    /\ IF id \notin DOMAIN orders
       THEN orders' = MapPut(orders, id, NewOrder(id, side, price, quantity))
       ELSE orders' = orders
    /\ UNCHANGED <<replacePendingOrdersMap, nfq, cov, pov>>

\* OrderManager::OnReplaceOrderRequest
OnReplaceOrderRequest(oldId, newId, deltaQuantity) ==
    /\ IF /\ oldId \in DOMAIN orders
          /\ orders[oldId].orderState # NewPending
          /\ orders[oldId].orderState # ReplacePending
       THEN /\ replacePendingOrdersMap' =
                  MapPut(replacePendingOrdersMap, oldId, <<newId, deltaQuantity>>)
            /\ orders' = [orders EXCEPT ![oldId].orderState = ReplacePending]
            /\ cov' = updateCOV(cov, orders[oldId].side,
                         0 - (orders[oldId].remainingQuantity * orders[oldId].price))
       ELSE UNCHANGED <<orders, replacePendingOrdersMap, cov>>
    /\ UNCHANGED <<nfq, pov>>

\* OrderManager::OnRequestAcknowledged
OnRequestAcknowledged(id) ==
    /\ IF id \in DOMAIN orders /\ orders[id].orderState = NewPending
       THEN LET o == ChangeOrderState(orders[id], TRUE)
            IN /\ orders' = [orders EXCEPT ![id] = o]
               /\ cov' = updateCOV(cov, o.side, o.price * o.remainingQuantity)
       ELSE IF id \in DOMAIN orders /\ orders[id].orderState = ReplacePending
       THEN \* the state ReplacePending is only ever set together with the
            \* record (OrderManager.cpp:136-138), so find(id) is never end()
            LET newId_deltaQty == replacePendingOrdersMap[id]
                newId == newId_deltaQty[1]
                deltaQuantity == newId_deltaQty[2]
                o == ChangeOrderState(
                         replaceOrder(orders[id], newId, deltaQuantity), TRUE)
            IN /\ orders' = [orders EXCEPT ![id] = o]
               /\ cov' = updateCOV(cov, o.side, o.price * o.remainingQuantity)
       ELSE UNCHANGED <<orders, cov>>
    /\ UNCHANGED <<replacePendingOrdersMap, nfq, pov>>

\* OnRequestRejected with the quantity of a rejected new order left in place
OnRequestRejected_keepsRemaining(id) ==
    /\ IF id \in DOMAIN orders /\ orders[id].orderState = NewPending
       THEN /\ orders' = [orders EXCEPT ![id].orderState = Rejected]
            /\ UNCHANGED <<replacePendingOrdersMap, cov>>
       ELSE IF id \in DOMAIN orders /\ orders[id].orderState = ReplacePending
       THEN LET o == ChangeOrderState(orders[id], TRUE)
            IN /\ replacePendingOrdersMap' = MapErase(replacePendingOrdersMap, id)
               /\ orders' = [orders EXCEPT ![id] = o]
               /\ cov' = updateCOV(cov, o.side, o.price * o.remainingQuantity)
       ELSE UNCHANGED <<orders, replacePendingOrdersMap, cov>>
    /\ UNCHANGED <<nfq, pov>>

\* OnRequestRejected with the value of a rejected replace not added back
OnRequestRejected_noRestore(id) ==
    /\ IF id \in DOMAIN orders /\ orders[id].orderState = NewPending
       THEN /\ orders' = [orders EXCEPT ![id].remainingQuantity = 0,
                                        ![id].orderState = Rejected]
            /\ UNCHANGED <<replacePendingOrdersMap, cov>>
       ELSE IF id \in DOMAIN orders /\ orders[id].orderState = ReplacePending
       THEN LET o == ChangeOrderState(orders[id], TRUE)
            IN /\ replacePendingOrdersMap' = MapErase(replacePendingOrdersMap, id)
               /\ orders' = [orders EXCEPT ![id] = o]
               /\ cov' = cov
       ELSE UNCHANGED <<orders, replacePendingOrdersMap, cov>>
    /\ UNCHANGED <<nfq, pov>>

\* OrderManager::OnRequestRejected
OnRequestRejected(id) ==
    /\ IF id \in DOMAIN orders /\ orders[id].orderState = NewPending
       THEN /\ orders' = [orders EXCEPT ![id].remainingQuantity = 0,
                                        ![id].orderState = Rejected]
            /\ UNCHANGED <<replacePendingOrdersMap, cov>>
       ELSE IF id \in DOMAIN orders /\ orders[id].orderState = ReplacePending
       THEN LET o == ChangeOrderState(orders[id], TRUE)
            IN /\ replacePendingOrdersMap' = MapErase(replacePendingOrdersMap, id)
               /\ orders' = [orders EXCEPT ![id] = o]
               /\ cov' = updateCOV(cov, o.side, o.price * o.remainingQuantity)
       ELSE UNCHANGED <<orders, replacePendingOrdersMap, cov>>
    /\ UNCHANGED <<nfq, pov>>

\* OnOrderFilled with the state left as it was
OnOrderFilled_noStateChange(id, quantityFilled) ==
    /\ IF id \in DOMAIN orders /\ orders[id].orderState # Rejected
       THEN LET f == [orders[id] EXCEPT
                         !.filledQuantity = @ + quantityFilled,
                         !.remainingQuantity = @ - quantityFilled]
            IN /\ nfq' = updateNFQ(nfq, f.side, quantityFilled)
               /\ cov' = updateCOV(cov, f.side, 0 - (f.price * quantityFilled))
               /\ orders' = [orders EXCEPT ![id] = f]
       ELSE UNCHANGED <<orders, nfq, cov>>
    /\ UNCHANGED <<replacePendingOrdersMap, pov>>

\* OnOrderFilled with no check for a Rejected order
OnOrderFilled_fillsRejected(id, quantityFilled) ==
    /\ IF id \in DOMAIN orders
       THEN LET f == [orders[id] EXCEPT
                         !.filledQuantity = @ + quantityFilled,
                         !.remainingQuantity = @ - quantityFilled]
            IN /\ nfq' = updateNFQ(nfq, f.side, quantityFilled)
               /\ cov' = updateCOV(cov, f.side, 0 - (f.price * quantityFilled))
               /\ orders' = [orders EXCEPT ![id] = ChangeOrderState(f, FALSE)]
       ELSE UNCHANGED <<orders, nfq, cov>>
    /\ UNCHANGED <<replacePendingOrdersMap, pov>>

\* OrderManager::OnOrderFilled
OnOrderFilled(id, quantityFilled) ==
    /\ IF id \in DOMAIN orders /\ orders[id].orderState # Rejected
       THEN LET f == [orders[id] EXCEPT
                         !.filledQuantity = @ + quantityFilled,
                         !.remainingQuantity = @ - quantityFilled]
            IN /\ nfq' = updateNFQ(nfq, f.side, quantityFilled)
               /\ cov' = updateCOV(cov, f.side, 0 - (f.price * quantityFilled))
               /\ orders' = [orders EXCEPT ![id] = ChangeOrderState(f, FALSE)]
       ELSE UNCHANGED <<orders, nfq, cov>>
    /\ UNCHANGED <<replacePendingOrdersMap, pov>>

\* ---- history of the calls ----

\* cycle[k] follows the replace request outstanding on the order keyed k:
\* phase is "open" from the accepted request to its resolution, then "acked"
\* or "rejected"; d is what the calls addressed to k added to cov since
\* (and including) the request; fills tells whether a fill was applied to
\* the order meanwhile; rem, filled and total are the order's quantities at
\* the time of the request, newId and delta the arguments of the request.
\* credited[k] is the quantity the order keyed k was inserted with plus the
\* deltas of the requests on it that were accepted and then acknowledged.
NoCycle ==
    [phase |-> "none", fills |-> FALSE, d |-> [b \in BOOLEAN |-> 0],
     rem |-> 0, filled |-> 0, total |-> 0, newId |-> 0, delta |-> 0]

CovDiff == [b \in BOOLEAN |-> cov'[b] - cov[b]]

Add(f, g) == [b \in BOOLEAN |-> f[b] + g[b]]

Known(id) == id \in DOMAIN orders

StateOf(id) == orders[id].orderState

\* every call is counted, the refused ones too
Tick == nEvents' = nEvents + 1

\* ---- the events a driver can deliver ----

InsertEvent(id, side, price, quantity) ==
    /\ Tick
    /\ OnInsertOrderRequest(id, side, price, quantity)
    /\ credited' = IF Known(id) THEN credited ELSE MapPut(credited, id, quantity)
    /\ UNCHANGED <<bidFilled, offerFilled, cycle>>

ReplaceEvent(oldId, newId, deltaQuantity) ==
    /\ Tick
    /\ OnReplaceOrderRequest(oldId, newId, deltaQuantity)
    /\ cycle' = IF Known(oldId) /\ StateOf(oldId) \notin {NewPending, ReplacePending}
                THEN [cycle EXCEPT ![oldId] =
                        [phase |-> "open", fills |-> FALSE, d |-> CovDiff,
                         rem |-> orders[oldId].remainingQuantity,
                         filled |-> orders[oldId].filledQuantity,
                         total |-> orders[oldId].totalQuantity,
                         newId |-> newId,
                         delta |-> deltaQuantity]]
                ELSE cycle
    /\ UNCHANGED <<bidFilled, offerFilled, credited>>

AckEvent(id) ==
    /\ Tick
    /\ OnRequestAcknowledged(id)
    /\ cycle' = IF Known(id) /\ StateOf(id) = ReplacePending
                THEN [cycle EXCEPT ![id].phase = "acked",
                                   ![id].d = Add(@, CovDiff)]
                ELSE cycle
    /\ credited' = IF Known(id) /\ StateOf(id) = ReplacePending
                   THEN [credited EXCEPT ![id] = @ + cycle[id].delta]
                   ELSE credited
    /\ UNCHANGED <<bidFilled, offerFilled>>

RejectEvent(id) ==
    /\ Tick
    /\ OnRequestRejected(id)
    /\ cycle' = IF Known(id) /\ StateOf(id) = ReplacePending
                THEN [cycle EXCEPT ![id].phase = "rejected",
                                   ![id].d = Add(@, CovDiff)]
                ELSE cycle
    /\ UNCHANGED <<bidFilled, offerFilled, credited>>

FillEvent(id, quantityFilled) ==
    /\ Tick
    /\ OnOrderFilled(id, quantityFilled)
    /\ LET applied == Known(id) /\ StateOf(id) # Rejected
       IN /\ bidFilled' = IF applied /\ orders[id].side = "B"
                          THEN bidFilled + quantityFilled ELSE bidFilled
          /\ offerFilled' = IF applied /\ orders[id].side # "B"
                            THEN offerFilled + quantityFilled ELSE offerFilled
          /\ cycle' = IF applied /\ cycle[id].phase = "open"
                      THEN [cycle EXCEPT ![id].fills = TRUE,
                                         ![id].d = Add(@, CovDiff)]
                      ELSE cycle
    /\ UNCHANGED credited

Init ==
    /\ orders = EmptyMap
    /\ replacePendingOrdersMap = EmptyMap
    /\ nfq = 0
    /\ cov = [b \in BOOLEAN |-> 0]
    /\ pov = [b \in BOOLEAN |-> 0]
    /\ nEvents = 0
    /\ bidFilled = 0
    /\ offerFilled = 0
    /\ cycle = [k \in Ids |-> NoCycle]
    /\ credited = EmptyMap
    /\ trace = << >>

\* The driver delivers at most MaxEvents calls, in any order.
Next ==
    \/ \E id \in Ids, side \in Sides, price \in Prices, quantity \in Quantities :
          nEvents < MaxEvents /\ InsertEvent(id, side, price, quantity)
             /\ UNCHANGED trace
    \/ \E oldId \in Ids, newId \in Ids, deltaQuantity \in Deltas :
          nEvents < MaxEvents /\ ReplaceEvent(oldId, newId, deltaQuantity)
             /\ UNCHANGED trace
    \/ \E id \in Ids : nEvents < MaxEvents /\ AckEvent(id) /\ UNCHANGED trace
    \/ \E id \in Ids : nEvents < MaxEvents /\ RejectEvent(id) /\ UNCHANGED trace
    \/ \E id \in Ids, quantityFilled \in FillQuantities :
          nEvents < MaxEvents /\ FillEvent(id, quantityFilled)
             /\ UNCHANGED trace

Spec == Init /\ [][Next]_vars

\* The same manager driven for MaxEventsLong calls, for the traces that need
\* one call more.
NextLong ==
    \/ \E id \in Ids, side \in Sides, price \in Prices, quantity \in Quantities :
          nEvents < MaxEventsLong /\ InsertEvent(id, side, price, quantity)
             /\ UNCHANGED trace
    \/ \E oldId \in Ids, newId \in Ids, deltaQuantity \in Deltas :
          nEvents < MaxEventsLong /\ ReplaceEvent(oldId, newId, deltaQuantity)
             /\ UNCHANGED trace
    \/ \E id \in Ids : nEvents < MaxEventsLong /\ AckEvent(id) /\ UNCHANGED trace
    \/ \E id \in Ids : nEvents < MaxEventsLong /\ RejectEvent(id) /\ UNCHANGED trace
    \/ \E id \in Ids, quantityFilled \in FillQuantities :
          nEvents < MaxEventsLong /\ FillEvent(id, quantityFilled)
             /\ UNCHANGED trace

SpecLong == Init /\ [][NextLong]_vars

\* ---- the scenario of main ----

\* The calls main makes, in its order.
Scenario ==
    << <<"insert", 100, "B", 200, 10>>,
       <<"ack", 100>>,
       <<"fill", 100, 5>>,
       <<"replace", 100, 101, 2>>,
       <<"fill", 100, 5>>,
       <<"fill", 100, 1>>,
       <<"ack", 100>> >>

ScenarioIds == {100, 101}

\* One call on the Listener interface.
Call(c) ==
    CASE c[1] = "insert" -> InsertEvent(c[2], c[3], c[4], c[5])
      [] c[1] = "replace" -> ReplaceEvent(c[2], c[3], c[4])
      [] c[1] = "ack" -> AckEvent(c[2])
      [] c[1] = "reject" -> RejectEvent(c[2])
      [] c[1] = "fill" -> FillEvent(c[2], c[3])

\* The first n calls of main.
Prefix(n) == SubSeq(Scenario, 1, n)

InitScenario ==
    /\ orders = EmptyMap
    /\ replacePendingOrdersMap = EmptyMap
    /\ nfq = 0
    /\ cov = [b \in BOOLEAN |-> 0]
    /\ pov = [b \in BOOLEAN |-> 0]
    /\ nEvents = 0
    /\ bidFilled = 0
    /\ offerFilled = 0
    /\ cycle = [k \in ScenarioIds |-> NoCycle]
    /\ credited = EmptyMap
    /\ trace = << >>

\* A driver that delivers calls of main, as many as main does, in any
\* order; trace records them. The order of main is one of its runs.
NextScenario ==
    \E i \in 1..Len(Scenario) :
       /\ Len(trace) < Len(Scenario)
       /\ Call(Scenario[i])
       /\ trace' = Append(trace, Scenario[i])

SpecScenario == InitScenario /\ [][NextScenario]_vars

\* ---- C1 ----
\* ConfirmedValue(S): the sum of price * remainingQuantity over the orders of
\* side S whose state is Active, PartiallyFilled or Completed.
RECURSIVE SumConfirmed(_, _)
SumConfirmed(keys, side) ==
    IF keys = {} THEN 0
    ELSE LET k == CHOOSE x \in keys : TRUE
         IN (IF /\ orders[k].side = side
                /\ orders[k].orderState \in {Active, PartiallyFilled, Completed}
             THEN orders[k].price * orders[k].remainingQuantity
             ELSE 0) + SumConfirmed(keys \ {k}, side)

ConfirmedValue(side) == SumConfirmed(DOMAIN orders, side)

\* C1: in every reachable state and for each side S, getCOV(S) equals the
\* sum of price * remainingQuantity over the orders of side S that are
\* Active, PartiallyFilled or Completed; pending and Rejected orders
\* contribute nothing, also when fills were processed while pending.
C1_COVIsConfirmedValue ==
    \A side \in Sides : getCOV(side) = ConfirmedValue(side)

\* ---- C2 ----
\* C2: getNFQ() equals the sum of the fills applied to bid orders minus the
\* sum of the fills applied to offer orders, whatever the state (NewPending,
\* ReplacePending or confirmed) of the order at fill time; bidFilled and
\* offerFilled change in applied fills only, so no other event moves NFQ.
C2_NFQIsSignedFillSum ==
    getNFQ = bidFilled - offerFilled

\* A bid and an offer have been filled, one of them while still pending.
C2_Witness ==
    /\ bidFilled > 0
    /\ offerFilled > 0
    /\ \E k \in DOMAIN orders :
          /\ orders[k].orderState \in {NewPending, ReplacePending}
          /\ orders[k].filledQuantity > 0

\* ---- C3 ----
\* C3: once an order is Rejected it is permanently dead: in every later step
\* its state stays Rejected, its quantities do not change, and no event
\* addressed to its id adds to getCOV of its side.
C3_RejectedIsDead ==
    [][\A k \in DOMAIN orders :
          orders[k].orderState = Rejected =>
             /\ orders'[k].orderState = Rejected
             /\ orders'[k].totalQuantity = orders[k].totalQuantity
             /\ orders'[k].remainingQuantity = orders[k].remainingQuantity
             /\ orders'[k].filledQuantity = orders[k].filledQuantity
             /\ ( \/ AckEvent(k) \/ RejectEvent(k)
                  \/ \E q \in FillQuantities : FillEvent(k, q)
                  \/ \E n \in Ids, d \in Deltas : ReplaceEvent(k, n, d)
                  \/ \E s \in Sides, p \in Prices, q \in Quantities :
                        InsertEvent(k, s, p, q) )
                => cov'[orders[k].side = "B"] <= cov[orders[k].side = "B"]]_vars

\* ---- C4 ----
\* C4: after an accepted replace request on an order has been acknowledged,
\* the order is tracked by its new id: a fill addressed to the new id is
\* applied to that order, and a replace request addressed to the new id puts
\* that order in ReplacePending.
C4_TrackedByNewId ==
    [][\A k \in DOMAIN orders :
          (cycle[k].phase = "acked"
             /\ orders[k].orderState \in {Active, PartiallyFilled, Completed}) =>
             /\ \A q \in FillQuantities :
                   FillEvent(orders[k].id, q) =>
                      /\ orders'[k].filledQuantity = orders[k].filledQuantity + q
                      /\ orders'[k].remainingQuantity =
                            orders[k].remainingQuantity - q
             /\ \A n \in Ids, d \in Deltas :
                   ReplaceEvent(orders[k].id, n, d) =>
                      orders'[k].orderState = ReplacePending]_vars

\* ---- C5 ----
\* C5: for an order of price P and side S whose accepted replace request of
\* delta D has been acknowledged with no fill applied to the order in
\* between, request and acknowledgement together added exactly P*D to
\* getCOV(S) and nothing to getCOV of the other side.
C5_ReplaceAckAddsPD ==
    \A k \in DOMAIN orders :
       (cycle[k].phase = "acked" /\ ~cycle[k].fills) =>
          /\ cycle[k].d[orders[k].side = "B"] = orders[k].price * cycle[k].delta
          /\ cycle[k].d[orders[k].side # "B"] = 0

\* A replace with a nonzero delta on an order that had quantity left was
\* acknowledged with no fill in between.
C5_Witness ==
    \E k \in DOMAIN orders :
       /\ cycle[k].phase = "acked"
       /\ ~cycle[k].fills
       /\ cycle[k].delta # 0
       /\ cycle[k].rem > 0

\* ---- C6 ----
\* C6: when a replace request accepted on an order is rejected with no fill
\* applied to the order in between, request and rejection together leave
\* getCOV of both sides as it was before the request, and the order's
\* remaining, filled and total quantities are those it had at the request.
C6_ReplaceRejectIsNoOp ==
    [][\A k \in DOMAIN orders :
          (cycle[k].phase = "open" /\ cycle'[k].phase = "rejected"
             /\ ~cycle'[k].fills) =>
             /\ cycle'[k].d = [b \in BOOLEAN |-> 0]
             /\ orders'[k].remainingQuantity = cycle[k].rem
             /\ orders'[k].filledQuantity = cycle[k].filled
             /\ orders'[k].totalQuantity = cycle[k].total]_vars

\* A replace request on an order with quantity left was rejected with no
\* fill in between.
C6_Witness ==
    \E k \in DOMAIN orders :
       /\ cycle[k].phase = "rejected"
       /\ ~cycle[k].fills
       /\ cycle[k].rem > 0
       /\ cycle[k].delta # 0

\* ---- C7 ----
\* C7: OnRequestAcknowledged(id) on a NewPending order of side S, price P,
\* quantity Q and no prior fills adds exactly P*Q to getCOV(S), makes the
\* order Active, and leaves getCOV of the other side, getNFQ and every other
\* order unchanged.
C7_AckNewPending ==
    [][\A id \in DOMAIN orders :
          (AckEvent(id) /\ StateOf(id) = NewPending
             /\ orders[id].filledQuantity = 0) =>
             /\ cov'[orders[id].side = "B"] =
                   cov[orders[id].side = "B"]
                      + orders[id].price * orders[id].totalQuantity
             /\ cov'[orders[id].side # "B"] = cov[orders[id].side # "B"]
             /\ orders'[id].orderState = Active
             /\ nfq' = nfq
             /\ DOMAIN orders' = DOMAIN orders
             /\ \A j \in DOMAIN orders : j # id => orders'[j] = orders[j]]_vars

\* An unfilled order was acknowledged while another order exists.
C7_Witness ==
    \E k \in DOMAIN orders :
       /\ orders[k].orderState = Active
       /\ cycle[k].phase = "none"
       /\ getCOV(orders[k].side) = orders[k].price * orders[k].totalQuantity
       /\ DOMAIN orders # {k}

\* ---- C8 ----
\* C8: in every reachable state a pending-replace record keyed by id exists
\* if and only if the order keyed by id is in state ReplacePending.
C8_RecordIffReplacePending ==
    \A id \in Ids :
       (id \in DOMAIN replacePendingOrdersMap)
          <=> (Known(id) /\ StateOf(id) = ReplacePending)

\* ---- C9 ----
\* C9: in every reachable state no two orders held by the manager have the
\* same current id.
C9_UniqueCurrentId ==
    \A j \in DOMAIN orders, k \in DOMAIN orders :
       j # k => orders[j].id # orders[k].id

\* ---- C10 ----
\* C10: every error path is a complete no-op: a duplicate insert; a replace
\* request for an unknown id or for a NewPending or ReplacePending order; an
\* ack or a reject for an unknown id or for an order that is not pending; a
\* fill for an unknown id or for a Rejected order. The order index, every
\* order, the pending-replace index, NFQ, COV and POV are as before the call.
C10_ErrorPathsAreNoOps ==
    [][\/ UNCHANGED progVars
       \/ /\ \A id \in Ids :
                Known(id) =>
                   \A s \in Sides, p \in Prices, q \in Quantities :
                      ~InsertEvent(id, s, p, q)
          /\ \A oldId \in Ids :
                (Known(oldId) => StateOf(oldId) \in {NewPending, ReplacePending})
                => \A newId \in Ids, d \in Deltas :
                      ~ReplaceEvent(oldId, newId, d)
          /\ \A id \in Ids :
                (Known(id) => StateOf(id) \notin {NewPending, ReplacePending})
                => (~AckEvent(id) /\ ~RejectEvent(id))
          /\ \A id \in Ids :
                (Known(id) => StateOf(id) = Rejected)
                => \A q \in FillQuantities : ~FillEvent(id, q)]_vars

\* Three calls were made, the only order is Rejected and no aggregate moved:
\* the third call took an error path.
C10_Witness ==
    /\ nEvents = 3
    /\ DOMAIN orders = {1}
    /\ orders[1].orderState = Rejected
    /\ nfq = 0
    /\ cov = [b \in BOOLEAN |-> 0]

\* ---- C11 ----
\* C11: OnOrderFilled(id, q) on a Rejected order is refused: the order's
\* filledQuantity and remainingQuantity, getNFQ and getCOV of both sides are
\* unchanged, for every q.
C11_FillOnRejectedRefused ==
    [][\A id \in DOMAIN orders :
          StateOf(id) = Rejected =>
             \A q \in FillQuantities :
                FillEvent(id, q) =>
                   /\ orders'[id].filledQuantity = orders[id].filledQuantity
                   /\ orders'[id].remainingQuantity = orders[id].remainingQuantity
                   /\ nfq' = nfq
                   /\ cov' = cov]_vars

\* The only order was filled while NewPending and then rejected, and a
\* fourth call was refused after that.
C11_Witness ==
    /\ nEvents = 4
    /\ DOMAIN orders = {1}
    /\ orders[1].orderState = Rejected
    /\ orders[1].filledQuantity = 1
    /\ (nfq = 1 \/ nfq = 0 - 1)

\* ---- C12 ----
\* C12: OnInsertOrderRequest(id, ...) for an id that already has an order,
\* whatever that order's state and whatever side, price and quantity the
\* duplicate carries, leaves the order as it is and creates no second order.
C12_DuplicateInsertIgnored ==
    [][\A id \in DOMAIN orders :
          \A s \in Sides, p \in Prices, q \in Quantities :
             InsertEvent(id, s, p, q) =>
                /\ orders'[id] = orders[id]
                /\ DOMAIN orders' = DOMAIN orders]_vars

\* An order was inserted and acknowledged, and two more calls left it the
\* only order, unfilled and Active.
C12_Witness ==
    /\ nEvents = 4
    /\ DOMAIN orders = {1}
    /\ orders[1].orderState = Active
    /\ orders[1].filledQuantity = 0
    /\ cycle[1].phase = "none"

\* ---- C13 ----
\* C13: in every reachable state every Rejected order has
\* remainingQuantity = 0, also when it was filled while NewPending.
C13_RejectedHasNoRemaining ==
    \A k \in DOMAIN orders :
       orders[k].orderState = Rejected => orders[k].remainingQuantity = 0

\* An order that was filled while NewPending has been rejected.
C13_Witness ==
    \E k \in DOMAIN orders :
       /\ orders[k].orderState = Rejected
       /\ orders[k].filledQuantity > 0

\* ---- C14 ----
\* C14: the trace of main passes these checkpoints: after the first fill the
\* order is PartiallyFilled and COV(B) = 1000; after the replace request
\* COV(B) = 0 and the order is ReplacePending; both later fills are applied
\* while it stays pending; after the final ack the order's id is 101, its
\* remainingQuantity is 1, NFQ is 11, and that ack added exactly 200 to COV(B).
C14_ScenarioCheckpoints ==
    [][/\ trace' = Prefix(3) =>
             /\ orders'[100].orderState = PartiallyFilled
             /\ cov'[TRUE] = 1000
       /\ trace' = Prefix(4) =>
             /\ cov'[TRUE] = 0
             /\ orders'[100].orderState = ReplacePending
       /\ trace' = Prefix(5) =>
             /\ orders'[100].orderState = ReplacePending
             /\ orders'[100].filledQuantity = 10
       /\ trace' = Prefix(6) =>
             /\ orders'[100].orderState = ReplacePending
             /\ orders'[100].filledQuantity = 11
       /\ trace' = Prefix(7) =>
             /\ orders'[100].id = 101
             /\ orders'[100].remainingQuantity = 1
             /\ nfq' = 11
             /\ cov'[TRUE] = cov[TRUE] + 200]_vars

\* main has run to its end.
C14_Witness ==
    trace = Scenario

\* ---- C15 ----
\* C15: an order in NewPending or ReplacePending leaves that state only
\* through OnRequestAcknowledged or OnRequestRejected addressed to its id:
\* no other step (a fill of any size, a replace request, an insert, a call
\* addressed to another id) changes its state.
C15_PendingLeftOnlyByConfirmation ==
    [][\A k \in DOMAIN orders :
          StateOf(k) \in {NewPending, ReplacePending} =>
             \/ orders'[k].orderState = orders[k].orderState
             \/ AckEvent(k)
             \/ RejectEvent(k)]_vars

\* An order with a replace pending has been filled beyond its quantity and
\* is still ReplacePending.
C15_Witness ==
    \E k \in DOMAIN orders :
       /\ orders[k].orderState = ReplacePending
       /\ cycle[k].fills
       /\ orders[k].remainingQuantity < 0

\* ---- C16 ----
\* The state the quantities of an order call for.
DerivedState(o) ==
    IF o.filledQuantity = 0 THEN Active
    ELSE IF o.filledQuantity > 0 /\ o.remainingQuantity > 0 THEN PartiallyFilled
    ELSE Completed

\* C16: in every reachable state an order that is Active, PartiallyFilled or
\* Completed has the state its current quantities call for: Active when
\* filledQuantity = 0, PartiallyFilled when filledQuantity > 0 and
\* remainingQuantity > 0, Completed otherwise.
C16_StateDerivedFromQuantities ==
    \A k \in DOMAIN orders :
       orders[k].orderState \in {Active, PartiallyFilled, Completed} =>
          orders[k].orderState = DerivedState(orders[k])

\* An acknowledged order has been filled beyond its quantity and is Completed.
C16_Witness ==
    \E k \in DOMAIN orders :
       /\ orders[k].orderState = Completed
       /\ orders[k].remainingQuantity < 0
       /\ cycle[k].phase = "none"

\* ---- C17 ----
\* C17: in every reachable state every order that is not Rejected has
\* totalQuantity = filledQuantity + remainingQuantity.
C17_TotalIsFilledPlusRemaining ==
    \A k \in DOMAIN orders :
       orders[k].orderState # Rejected =>
          orders[k].totalQuantity =
             orders[k].filledQuantity + orders[k].remainingQuantity

C19_RecordIsLatestRequest ==
    \A k \in DOMAIN orders :
       orders[k].orderState = ReplacePending =>
          /\ k \in DOMAIN replacePendingOrdersMap
          /\ replacePendingOrdersMap[k] = <<cycle[k].newId, cycle[k].delta>>

\* A second replace is pending on an order whose id an earlier acknowledged
\* replace had changed, and it asks for another id than that one: the record
\* left by the earlier replace has been replaced.
C19_Witness ==
    \E k \in DOMAIN orders :
       /\ orders[k].orderState = ReplacePending
       /\ orders[k].id # k
       /\ cycle[k].newId # orders[k].id

\* ---- C20 ----
\* C20: in every reachable state every order that is Active or
\* PartiallyFilled has remainingQuantity > 0.
C20_LiveOrderHasRemaining ==
    \A k \in DOMAIN orders :
       orders[k].orderState \in {Active, PartiallyFilled} =>
          orders[k].remainingQuantity > 0

====
